---- MODULE Spec2Model ----
(***************************************************************************)
(* fglib: factor graphs (graphs.py), their nodes (nodes.py), edges         *)
(* (edges.py), discrete random variables (rv.py) and the tree schedule of  *)
(* inference.py, as a state machine over one FactorGraph object and a      *)
(* fixed population of node objects.                                       *)
(*                                                                         *)
(* Numbers are integers: a pmf entry stands for a weight, and a normalized *)
(* pmf is the pair (weights, their sum).                                   *)
(***************************************************************************)
EXTENDS Integers, Sequences, FiniteSets, TLC

\* ------------------------------------------------------------------ bounds
NumV == 2        \* VNode objects the caller has constructed
NumF == 2        \* FNode objects the caller has constructed
MaxRuns == 2     \* calls of sum_product / max_product / max_sum the caller makes
MaxIterations == 1  \* the iterations argument of a flooding run

VNodes == {<<"x", i>> : i \in 1..NumV}
FNodes == {<<"f", j>> : j \in 1..NumF}
Nodes == VNodes \cup FNodes

\* the order in which the caller constructed the node objects
NodeSeq == [k \in 1..(NumV + NumF) |->
              IF k <= NumV THEN <<"x", k>> ELSE <<"f", k - NumV>>]

\* ------------------------------------------------------------ Python values
NoneVal == [kind |-> "None"]

Ok(v) == [exc |-> "none", val |-> v]
Raise(e) == [exc |-> e, val |-> NoneVal]

\* ------------------------------------------------------------ sequences
RECURSIVE SetSum(_, _)
SetSum(S, f) ==
  IF S = {} THEN 0
  ELSE LET x == CHOOSE y \in S : TRUE IN f[x] + SetSum(S \ {x}, f)

Range(s) == {s[i] : i \in DOMAIN s}

Contains(s, x) == \E i \in DOMAIN s : s[i] = x

\* ------------------------------------------------------------ numpy arrays
\* the multi-indices of an array of the given shape
RECURSIVE Idx(_)
Idx(shape) ==
  IF shape = <<>> THEN {<<>>}
  ELSE {<<i>> \o t : i \in 0..(Head(shape) - 1), t \in Idx(Tail(shape))}

\* row-major position of a multi-index (np.ravel_multi_index)
RECURSIVE FlatIdx(_, _)
FlatIdx(ix, shape) ==
  IF ix = <<>> THEN 0
  ELSE LET n == Len(ix)
       IN FlatIdx(SubSeq(ix, 1, n - 1), SubSeq(shape, 1, n - 1)) * shape[n] + ix[n]

InsertAt(s, k, x) == SubSeq(s, 1, k) \o <<x>> \o SubSeq(s, k + 1, Len(s))
RemoveAt(s, k) == SubSeq(s, 1, k - 1) \o SubSeq(s, k + 1, Len(s))

Ones(n) == [i \in 1..n |-> 1]

\* an array is [shape, pmf]: pmf maps each multi-index of shape to a number
Arr(shape, pmf) == [shape |-> shape, pmf |-> pmf]

\* np.expand_dims(a, axis): a new axis of length 1 at 0-based position axis
ExpandDims(a, axis) ==
  LET shape == InsertAt(a.shape, axis, 1)
  IN Arr(shape, [ix \in Idx(shape) |-> a.pmf[RemoveAt(ix, axis + 1)]])

\* np.tile(a, reps): the shorter of a.shape and reps is padded with 1 on the left
Tile(a, reps) ==
  LET r == IF Len(reps) > Len(a.shape) THEN Len(reps) ELSE Len(a.shape)
      sh == Ones(r - Len(a.shape)) \o a.shape
      rp == Ones(r - Len(reps)) \o reps
      shape == [i \in 1..r |-> sh[i] * rp[i]]
      src(ix) == LET full == [i \in 1..r |-> ix[i] % sh[i]]
                 IN SubSeq(full, r - Len(a.shape) + 1, r)
  IN Arr(shape, [ix \in Idx(shape) |-> a.pmf[src(ix)]])

\* numpy broadcasting of two shapes, aligned from the right
BroadcastOk(s1, s2) ==
  LET r == IF Len(s1) > Len(s2) THEN Len(s1) ELSE Len(s2)
      p1 == Ones(r - Len(s1)) \o s1
      p2 == Ones(r - Len(s2)) \o s2
  IN \A i \in 1..r : p1[i] = p2[i] \/ p1[i] = 1 \/ p2[i] = 1

\* a * b on numpy arrays (elementwise, broadcast)
ArrMul(a, b) ==
  LET r == IF Len(a.shape) > Len(b.shape) THEN Len(a.shape) ELSE Len(b.shape)
      p1 == Ones(r - Len(a.shape)) \o a.shape
      p2 == Ones(r - Len(b.shape)) \o b.shape
      shape == [i \in 1..r |-> IF p1[i] = 1 THEN p2[i] ELSE p1[i]]
      at(x, p, ix) == LET full == [i \in 1..r |-> IF p[i] = 1 THEN 0 ELSE ix[i]]
                      IN x.pmf[SubSeq(full, r - Len(x.shape) + 1, r)]
  IN Arr(shape, [ix \in Idx(shape) |-> at(a, p1, ix) * at(b, p2, ix)])

\* np.sum / np.amax over the 1-based axes in axes (none: the array unchanged)
ArrReduce(a, axes, isMax) ==
  LET keep == SelectSeq([i \in 1..Len(a.shape) |-> i], LAMBDA i : i \notin axes)
      shape == [k \in 1..Len(keep) |-> a.shape[keep[k]]]
      cell(ix) == {jx \in Idx(a.shape) : \A k \in 1..Len(keep) : jx[keep[k]] = ix[k]}
      maxOf(S) == CHOOSE m \in {a.pmf[jx] : jx \in S} :
                    \A jx \in S : a.pmf[jx] <= m
  IN Arr(shape, [ix \in Idx(shape) |->
                   IF isMax THEN maxOf(cell(ix)) ELSE SetSum(cell(ix), a.pmf)])

\* np.sum(a): the sum of all entries
ArrTotal(a) == SetSum(Idx(a.shape), a.pmf)

\* np.argmax(a): row-major position of the first maximal entry
ArrArgmax(a) ==
  LET best == CHOOSE ix \in Idx(a.shape) :
                \A jx \in Idx(a.shape) :
                  \/ a.pmf[jx] < a.pmf[ix]
                  \/ /\ a.pmf[jx] = a.pmf[ix]
                     /\ FlatIdx(ix, a.shape) <= FlatIdx(jx, a.shape)
  IN best

\* ------------------------------------------------------------ rv.Discrete
\* A Discrete is [dim, shape, pmf, den, obj]: the entries are pmf[ix] / den
\* (den = 0 stands for the result of dividing by a zero sum), and obj tells
\* which Python object it is: <<"init", n>> the init of VNode n, <<"factor", f>>
\* the factor of FNode f, <<"arg">> one the caller passed, <<"new">> one that an
\* operation has just built and that nothing else refers to.

\* Discrete.__init__ without the check of the number of dimensions
DiscreteUnchecked(shape, pmf, den, args) ==
  Ok([kind |-> "Discrete", dim |-> args, shape |-> shape, pmf |-> pmf,
      den |-> den, obj |-> <<"new">>])

\* Discrete.__init__: pmf of the given shape over the variable nodes args
Discrete(shape, pmf, den, args) ==
  IF Len(shape) # Len(args) THEN Raise("ParameterException")
  ELSE Ok([kind |-> "Discrete", dim |-> args, shape |-> shape, pmf |-> pmf,
           den |-> den, obj |-> <<"new">>])

\* Discrete.unity built from np.zeros in place of np.ones
UnityOfZeros(args) ==
  LET shape == Ones(Len(args))
  IN Discrete(shape, [ix \in Idx(shape) |-> 0], 1, args).val

\* Discrete.unity: np.ones((1,) * n) over args
Unity(args) ==
  LET shape == Ones(Len(args))
  IN Discrete(shape, [ix \in Idx(shape) |-> 1], 1, args).val

\* Discrete._expand: self grown in place to the dimensions dims of sizes states
\* (diff: the 0-based positions in dims of the dimensions self has not)
ExpandAxes(a, diff) ==
  LET step[k \in 0..Len(diff)] ==
        IF k = 0 THEN a ELSE ExpandDims(step[k - 1], diff[k])
  IN step[Len(diff)]

ExpandTo(self, dims, tiled) ==
  [self EXCEPT !.shape = tiled.shape, !.pmf = tiled.pmf, !.dim = dims]

ExpandBy(self, dims, states, diff) ==
  ExpandTo(self, dims,
           Tile(ExpandAxes(Arr(self.shape, self.pmf), diff),
                [i \in 1..Len(dims) |-> IF Contains(diff, i - 1) THEN states[i] ELSE 1]))

Expand(self, dims, states) ==
  ExpandBy(self, dims, states,
           SelectSeq([i \in 1..Len(dims) |-> i - 1],
                     LAMBDA i : ~Contains(self.dim, dims[i + 1])))

\* Discrete.__mul__: [exc, val] and the two operands as the call leaves them
\* (MulArrays: s1 and o1 are the operands after _expand)
MulResult(s1, o1, p) == Discrete(p.shape, p.pmf, s1.den * o1.den, s1.dim)

MulOperands(s1, o1, res) ==
  [exc |-> res.exc, val |-> res.val, self |-> s1, other |-> o1]

MulArrays(s1, o1) ==
  MulOperands(s1, o1,
              IF ~BroadcastOk(s1.shape, o1.shape) THEN Raise("ValueError")
              ELSE MulResult(s1, o1, ArrMul(Arr(s1.shape, s1.pmf), Arr(o1.shape, o1.pmf))))

Mul(self, other) ==
  MulArrays(IF Len(self.dim) < Len(other.dim)
            THEN Expand(self, other.dim, other.shape) ELSE self,
            IF Len(self.dim) > Len(other.dim)
            THEN Expand(other, self.dim, self.shape) ELSE other)

\* Discrete.normalize
Normalize(self) ==
  Discrete(self.shape, self.pmf, ArrTotal(Arr(self.shape, self.pmf)), self.dim)

\* the 1-based axes of self whose variable is in dims
AxesOf(self, dims) == {i \in 1..Len(self.dim) : self.dim[i] \in dims}

\* Discrete.marginalize (isMax FALSE) and Discrete.maximize (isMax TRUE)
\* (p: the pmf summed or maximized over the axes of dims)
Collapsed(self, dims, normalize, p) ==
  Discrete(p.shape, p.pmf, IF normalize THEN ArrTotal(p) ELSE self.den,
           SelectSeq(self.dim, LAMBDA d : d \notin dims))

Collapse(self, dims, normalize, isMax) ==
  Collapsed(self, dims, normalize,
            ArrReduce(Arr(self.shape, self.pmf), AxesOf(self, dims), isMax))

\* Discrete.marginalize taking np.amax in place of np.sum
MarginalizeByMax(self, dims, normalize) == Collapse(self, dims, normalize, TRUE)

Marginalize(self, dims, normalize) == Collapse(self, dims, normalize, FALSE)

Maximize(self, dims, normalize) == Collapse(self, dims, normalize, TRUE)

\* Discrete.argmax(dim): marginalize(dim), then np.argmax of what is left
ArgmaxOf(m) ==
  IF m.exc # "none" THEN m
  ELSE Ok(FlatIdx(ArrArgmax(Arr(m.val.shape, m.val.pmf)), m.val.shape))

Argmax(self, dim) == ArgmaxOf(Marginalize(self, {dim}, TRUE))

\* Discrete.log: np.log(self.value), an attribute no Discrete has
Log(self) == Raise("AttributeError")

\* the same numbers over the same dimensions (object identity set aside)
SameValue(a, b) ==
  /\ a.kind = b.kind
  /\ a.kind = "Discrete" =>
       /\ a.dim = b.dim
       /\ a.shape = b.shape
       /\ \A ix \in Idx(a.shape) : a.pmf[ix] * b.den = b.pmf[ix] * a.den

\* ------------------------------------------------------------------ state
VARIABLES
  gnodes,     \* FactorGraph: its nodes, in insertion order
  succ,       \* FactorGraph: the successors of each node, in insertion order
  pred,       \* FactorGraph: the predecessors of each node, in insertion order
  edata,      \* FactorGraph: the attribute dict of each directed edge
  ngraph,     \* Node.__graph of each node
  init,       \* VNode.__init of each variable node
  observed,   \* VNode.observed of each variable node
  factor,     \* FNode.__factor of each factor node
  record,     \* FNode.record of each factor node
  outcome,    \* what the caller's last call returned or raised
  runs        \* the caller's calls of sum_product / max_product / max_sum so far

vars ==
  <<gnodes, succ, pred, edata, ngraph, init, observed, factor, record, outcome, runs>>

InGraph(n) == Contains(gnodes, n)

\* FactorGraph.get_vnodes / get_fnodes
get_vnodes == SelectSeq(gnodes, LAMBDA n : n \in VNodes)
get_fnodes == SelectSeq(gnodes, LAMBDA n : n \in FNodes)

EmptyDict == [k \in {} |-> NoneVal]

\* outcome: the call, what it raised or returned, and the writes of its schedule
Result(op, args, r) ==
  [op |-> op, args |-> args, exc |-> r.exc, val |-> r.val, writes |-> <<>>]
Returned(op, args, v) == Result(op, args, Ok(v))
Raised(op, args, e) == Result(op, args, Raise(e))

\* ------------------------------------------------------------- edges.Edge
\* Edge.__init__
Edge(snode, tnode, m) ==
  [index |-> (tnode :> 1) @@ (snode :> 0),
   message |-> << <<NoneVal, m>>, <<m, NoneVal>> >>,
   logarithmic |-> FALSE,
   variable |-> IF snode \in VNodes THEN snode ELSE tnode]

\* Edge.set_message
EdgeSetMessage(e, snode, tnode, value, logarithmic) ==
  IF snode \notin DOMAIN e.index \/ tnode \notin DOMAIN e.index
  THEN Raise("KeyError")
  ELSE Ok([e EXCEPT !.message[e.index[snode] + 1][e.index[tnode] + 1] = value,
                    !.logarithmic = logarithmic])

\* Edge.get_message
EdgeGetMessage(e, snode, tnode) ==
  IF snode \notin DOMAIN e.index \/ tnode \notin DOMAIN e.index
  THEN Raise("KeyError")
  ELSE Ok(e.message[e.index[snode] + 1][e.index[tnode] + 1])

\* ------------------------------------------------------- what the caller passes
\* the number of states of variable node v: 2 for x1, 3 for x2, ...
NumStates(v) == v[2] + 1

\* the weight a pairwise factor gives to the value i of the variable of the
\* smaller label and the value j of the other: the table [[2, 1, 3], [1, 1, 2]]
PairWeight(i, j) ==
  IF i = 0 /\ j = 2 THEN 3
  ELSE IF j = 1 \/ (i = 1 /\ j = 0) THEN 1
  ELSE 2

\* rv.Discrete(table, a, b)
PairFactor(a, b) ==
  Discrete(<<NumStates(a), NumStates(b)>>,
           [ix \in Idx(<<NumStates(a), NumStates(b)>>) |->
              IF a[2] < b[2] THEN PairWeight(ix[1], ix[2])
              ELSE PairWeight(ix[2], ix[1])],
           1, <<a, b>>).val

\* rv.Discrete([1, 2, ...], a)
PriorFactor(a) ==
  Discrete(<<NumStates(a)>>, [ix \in Idx(<<NumStates(a)>>) |-> ix[1] + 1],
           1, <<a>>).val

Factors ==
  {PairFactor(e[1], e[2]) : e \in {p \in VNodes \X VNodes : p[1] # p[2]}}
  \cup {PriorFactor(a) : a \in VNodes}

\* the factor argument of FNode(label, factor) for factor node f: None (the
\* default), or a factor over the variables f is to be connected to (a
\* factor node after the first has a factor over its own variable, or one
\* over the variable before and its own, which closes a cycle)
FactorsOf(f) ==
  {NoneVal}
  \cup {[d EXCEPT !.obj = <<"factor", f>>] :
          d \in {c \in Factors :
                  \/ \A i \in DOMAIN c.dim :
                       /\ c.dim[i][2] \in {f[2], f[2] + 1}
                       /\ f[2] > 1 => Len(c.dim) = 1 /\ c.dim[1][2] = f[2]
                  \/ f[2] > 1 /\ c.dim = <<<<"x", f[2] - 1>>, <<"x", f[2]>>>>}}

\* the init argument of set_edge: None (the default) or the unity of the
\* variable node of the edge
Inits(snode, tnode) ==
  {NoneVal}
  \cup {[Unity(<<n>>) EXCEPT !.obj = <<"arg", snode, tnode>>] :
          n \in {snode, tnode} \cap VNodes}

\* exclusion arguments: nothing, one node, or a list of two nodes
Exclusions ==
  {<<>>} \cup {<<m>> : m \in Nodes}
  \cup {<<NodeSeq[e[1]], NodeSeq[e[2]]>> :
          e \in {p \in (DOMAIN NodeSeq) \X (DOMAIN NodeSeq) :
                  p[1] < p[2] /\ NodeSeq[p[1]][1] = NodeSeq[p[2]][1]}}

\* ------------------------------------------------------------- the caller
\* The caller's program has the shape of docs/example_spa.py: it constructs
\* the nodes, adds them to the graph (set_node), connects them (set_edge), and
\* then queries the graph.  Between the building and the queries it may give
\* the edges their Edge objects and the nodes their graph, which no method of
\* the library does.  A read (neighbors, get_message, get_incoming_messages,
\* belief, a node's mf or mpa) is the last call of the program.  A flooding
\* run is the only inference run of a program that makes one, and its last
\* call.  neighbors reads only the structure of the graph, which no run
\* changes: the caller asks for it before its runs.
BuildOps == {"FactorGraph", "set_node", "set_edge", "object", "graph"}
ReadOps ==
  {"neighbors", "get_message", "get_incoming_messages", "belief", "mf", "mpa"}
FloodOps == {"loopy_belief_propagation", "mean_field"}

Building == outcome.op \in BuildOps
Querying == outcome.op \notin ReadOps \cup FloodOps

\* an inference run has been made
AfterRun == runs > 0 \/ outcome.op \in FloodOps

\* the nodes that a path over the directed edges E leads to from the nodes S
RECURSIVE ReachFrom(_, _)
ReachFrom(S, E) ==
  IF \A e \in E : e[1] \in S => e[2] \in S THEN S
  ELSE ReachFrom(S \cup {e[2] : e \in {d \in E : d[1] \in S}}, E)

\* the graph has a cycle: two nodes of an edge are connected without it
HasCycle ==
  \E e \in DOMAIN edata :
    e[2] \in ReachFrom({e[1]}, DOMAIN edata \ {e, <<e[2], e[1]>>})

\* the graph is a tree: connected, and without a cycle
IsTree ==
  /\ gnodes # <<>>
  /\ ReachFrom({gnodes[1]}, DOMAIN edata) = Range(gnodes)
  /\ ~HasCycle

NoEdges == DOMAIN edata = {}
HasObjects == \E e \in DOMAIN edata : "object" \in DOMAIN edata[e]
Attached == \E n \in Nodes : ngraph[n] # "None"

\* ---------------------------------------------------------- construction
\* VNode.__init__(label, rv.Discrete) and FNode.__init__(label, factor) for
\* every node object, and FactorGraph.__init__
Init ==
  /\ gnodes = <<>>
  /\ succ = [n \in Nodes |-> <<>>]
  /\ pred = [n \in Nodes |-> <<>>]
  /\ edata = EmptyDict
  /\ ngraph = [n \in Nodes |-> "None"]
  /\ init = [n \in VNodes |-> [Unity(<<n>>) EXCEPT !.obj = <<"init", n>>]]
  /\ observed = [n \in VNodes |-> FALSE]
  /\ factor \in {g \in [FNodes -> UNION {FactorsOf(f) : f \in FNodes}] :
                   \A f \in FNodes : g[f] \in FactorsOf(f)}
  /\ record = [f \in FNodes |-> EmptyDict]
  /\ outcome = Returned("FactorGraph", <<>>, NoneVal)
  /\ runs = 0

\* the position of node n in the order of construction
Pos(n) == CHOOSE k \in DOMAIN NodeSeq : NodeSeq[k] = n

\* FactorGraph.set_node: the caller adds nodes in the order of construction
SetNode(n) ==
  /\ Building /\ NoEdges /\ ~Attached
  /\ \A k \in DOMAIN gnodes : Pos(gnodes[k]) < Pos(n)
  /\ gnodes' = Append(gnodes, n)
  /\ outcome' = Returned("set_node", <<n>>, NoneVal)
  /\ UNCHANGED <<succ, pred, edata, ngraph, init, observed, factor, record, runs>>

\* DiGraph.add_edge(u, v, msg=m) on the graph [succ, pred, edata]
add_edge(g, u, v, m) ==
  LET old == IF <<u, v>> \in DOMAIN g.edata THEN g.edata[<<u, v>>] ELSE EmptyDict
      dict == [k \in DOMAIN old \cup {"msg"} |-> IF k = "msg" THEN m ELSE old[k]]
  IN [succ |-> IF Contains(g.succ[u], v) THEN g.succ
               ELSE [g.succ EXCEPT ![u] = Append(@, v)],
      pred |-> IF Contains(g.pred[v], u) THEN g.pred
               ELSE [g.pred EXCEPT ![v] = Append(@, u)],
      edata |-> [e \in DOMAIN g.edata \cup {<<u, v>>} |->
                   IF e = <<u, v>> THEN dict ELSE g.edata[e]]]

\* the place of the edge (snode, tnode) in the caller's list of edges
EdgePos(snode, tnode) == Pos(snode) * (NumV + NumF) + Pos(tnode)

\* FactorGraph.set_edge(snode, tnode, init=m), both nodes being in the graph:
\* the caller takes the edges in the order of its list, and passes an init
\* either with every edge or with none
SetEdge(snode, tnode, m) ==
  /\ Building /\ ~HasObjects /\ ~Attached
  /\ InGraph(snode) /\ InGraph(tnode)
  /\ \A e \in DOMAIN edata :
       /\ e[1] \in VNodes => EdgePos(e[1], e[2]) < EdgePos(snode, tnode)
       /\ edata[e]["msg"].kind = m.kind
  /\ LET g1 == add_edge([succ |-> succ, pred |-> pred, edata |-> edata],
                        snode, tnode, m)
         g2 == add_edge(g1, tnode, snode, m)
     IN /\ succ' = g2.succ
        /\ pred' = g2.pred
        /\ edata' = g2.edata
  /\ outcome' = Returned("set_edge", <<snode, tnode>>, NoneVal)
  /\ UNCHANGED <<gnodes, ngraph, init, observed, factor, record, runs>>

\* for every directed edge (u, v) of the graph:
\* graph[u][v]['object'] = Edge(u, v, init), init being what the edge was set
\* with.  The caller gives the edges the Edge objects that the nodes and the
\* schedule read and write.
SetEdgeObject ==
  /\ Building /\ ~NoEdges /\ ~HasObjects
  /\ edata' = [e \in DOMAIN edata |->
                 ("object" :> Edge(e[1], e[2], edata[e]["msg"])) @@ edata[e]]
  /\ outcome' = Returned("object", <<>>, NoneVal)
  /\ UNCHANGED <<gnodes, succ, pred, ngraph, init, observed, factor, record, runs>>

\* Node.graph setter, for every node of the graph: n.graph = graph
SetGraph ==
  /\ Building /\ gnodes # <<>> /\ ~Attached
  /\ ngraph' = [n \in Nodes |-> IF InGraph(n) THEN "fg" ELSE "None"]
  /\ outcome' = Returned("graph", <<>>, NoneVal)
  /\ UNCHANGED <<gnodes, succ, pred, edata, init, observed, factor, record, runs>>

\* ------------------------------------------------- objects a run can change
\* h = [edata, record, init, factor, writes]: what the node operators and the
\* schedule read and write, and the directed edges whose Edge object the
\* schedule has set a message of, in the order of the calls.  A step returns
\* [exc, val, h]: what it raised, or what it returned, and the objects as it
\* leaves them.
Heap ==
  [edata |-> edata, record |-> record, init |-> init, factor |-> factor,
   writes |-> <<>>]

Done(h, v) == [exc |-> "none", val |-> v, h |-> h]
Fail(h, e) == [exc |-> e, val |-> NoneVal, h |-> h]

\* r = [exc, val] of a call that changes no object
Pure(h, r) == [exc |-> r.exc, val |-> r.val, h |-> h]

\* sequencing: an exception of the step r ends the method, else Then(r) follows
Try(r, Then(_)) == IF r.exc # "none" THEN r ELSE Then(r)

\* graph[u][v]['object'] of the factor graph
EdgeObject(h, u, v) ==
  IF <<u, v>> \notin DOMAIN h.edata THEN Raise("KeyError")
  ELSE IF "object" \notin DOMAIN h.edata[<<u, v>>] THEN Raise("KeyError")
  ELSE Ok(h.edata[<<u, v>>]["object"])

\* self.graph[n][self]['object'].get_message(n, self) in a node's method
ReadMessage(h, n, self) ==
  IF ngraph[self] = "None" THEN Fail(h, "TypeError")
  ELSE Try(Pure(h, EdgeObject(h, n, self)),
           LAMBDA o : Pure(h, EdgeGetMessage(o.val, n, self)))

\* graph[u][v]['object'].set_message(u, v, msg, logarithmic) in the schedule
WriteMessage(h, u, v, msg, logarithmic) ==
  Try(Pure(h, EdgeObject(h, u, v)),
      LAMBDA o : Try(Pure(h, EdgeSetMessage(o.val, u, v, msg, logarithmic)),
                     LAMBDA e : Done([h EXCEPT !.edata[<<u, v>>]["object"] = e.val,
                                                !.writes = Append(@, <<u, v>>)],
                                     NoneVal)))

\* The Discrete d has been changed in place (Discrete._expand): every place
\* that refers to the same object sees the change.  slot is the directed edge
\* whose stored message d is, or <<>>.
SameObject(m, d) == m.kind = "Discrete" /\ m.obj = d.obj /\ d.obj # <<"new">>

IsSlot(o, e, i, j) ==
  /\ e[1] \in DOMAIN o.index /\ e[2] \in DOMAIN o.index
  /\ o.index[e[1]] + 1 = i /\ o.index[e[2]] + 1 = j

ChangedEdge(o, e, d, slot) ==
  [o EXCEPT !.message =
     [i \in 1..2 |-> [j \in 1..2 |->
        IF SameObject(o.message[i][j], d) \/ (e = slot /\ IsSlot(o, e, i, j))
        THEN d ELSE o.message[i][j]]]]

Changed(h, d, slot) ==
  [h EXCEPT
     !.edata = [e \in DOMAIN h.edata |->
                  [k \in DOMAIN h.edata[e] |->
                     IF k = "object" THEN ChangedEdge(h.edata[e][k], e, d, slot)
                     ELSE IF SameObject(h.edata[e][k], d) THEN d
                     ELSE h.edata[e][k]]],
     !.init = [n \in VNodes |-> IF SameObject(h.init[n], d) THEN d ELSE h.init[n]],
     !.factor = [f \in FNodes |-> IF SameObject(h.factor[f], d) THEN d ELSE h.factor[f]]]

\* ------------------------------------------------------------- nodes.Node
\* nx.all_neighbors(self.graph, self): predecessors, then successors
all_neighbors(self) ==
  IF ngraph[self] = "None" THEN Raise("AttributeError")
  ELSE IF ~InGraph(self) THEN Raise("NetworkXError")
  ELSE Ok(pred[self] \o succ[self])

\* Node.neighbors(exclusion): iterator is the tuple or list of excluded nodes
\* (empty for exclusion None)
Excluding(a, iterator) ==
  IF a.exc # "none" THEN a
  ELSE Ok(SelectSeq(a.val, LAMBDA n : ~Contains(iterator, n)))

neighbors(self, iterator) == Excluding(all_neighbors(self), iterator)

\* msg *= other, in a node's method (r: what Discrete.__mul__ gives)
\* (mslot, slot: the directed edges whose stored messages msg and other are,
\* or <<>>)
IMulChanged(h, msg, mslot, other, slot, r) ==
  [exc |-> r.exc, val |-> r.val,
   h |-> IF r.self # msg
         THEN Changed(IF r.other # other THEN Changed(h, r.other, slot) ELSE h,
                      r.self, mslot)
         ELSE IF r.other # other THEN Changed(h, r.other, slot) ELSE h]

IMul(h, msg, mslot, other, slot) ==
  IF msg.kind = "None" THEN Fail(h, "TypeError")
  ELSE IF other.kind = "None" THEN Fail(h, "AttributeError")
  ELSE IMulChanged(h, msg, mslot, other, slot, Mul(msg, other))

\* for n in nbrs[k..]: msg *= self.graph[n][self]['object'].get_message(n, self)
RECURSIVE Product(_, _, _, _, _, _)
Product(h, self, nbrs, k, msg, mslot) ==
  IF k > Len(nbrs) THEN Done(h, msg)
  ELSE Try(ReadMessage(h, nbrs[k], self),
           LAMBDA m : Try(IMul(h, msg, mslot, m.val, <<nbrs[k], self>>),
                          LAMBDA r : Product(r.h, self, nbrs, k + 1, r.val, <<>>)))

\* ------------------------------------------------------------ nodes.VNode
\* VNode.belief(normalize)
VNodeBelief(h, self, normalize) ==
  IF ngraph[self] = "None" THEN Fail(h, "AttributeError")
  ELSE IF ~InGraph(self) THEN Fail(h, "NetworkXError")
  ELSE IF succ[self] = <<>> THEN Fail(h, "StopIteration")
  ELSE Try(ReadMessage(h, Head(succ[self]), self),
           LAMBDA first :
             Try(Product(h, self, succ[self], 2, first.val, <<Head(succ[self]), self>>),
                 LAMBDA b : IF ~normalize THEN b
                            ELSE IF b.val.kind = "None" THEN Fail(b.h, "AttributeError")
                            ELSE Pure(b.h, Normalize(b.val))))

\* VNode.maximum(normalize): np.amax(b.pmf), as the pair (weight, den)
Amax(b) ==
  [num |-> ArrReduce(Arr(b.shape, b.pmf), 1..Len(b.shape), TRUE).pmf[<<>>],
   den |-> b.den]

VNodeMaximum(h, self, normalize) ==
  Try(VNodeBelief(h, self, normalize), LAMBDA b : Done(b.h, Amax(b.val)))

\* VNode.argmax
VNodeArgmax(h, self) ==
  Try(VNodeBelief(h, self, TRUE), LAMBDA b : Pure(b.h, Argmax(b.val, self)))

\* VNode.spa(tnode)
VNodeSpa(h, self, tnode) ==
  IF observed[self] THEN Done(h, h.init[self])
  ELSE Try(Pure(h, neighbors(self, <<tnode>>)),
           LAMBDA nb : Product(h, self, nb.val, 1, h.init[self], <<>>))

\* VNode.mpa(tnode)
VNodeMpa(h, self, tnode) == VNodeSpa(h, self, tnode)

\* VNode.msa(tnode): after msg.log() comes self.neighbors(self.graph, self,
\* tnode), two arguments too many
VNodeMsa(h, self, tnode) ==
  IF observed[self] THEN Done(h, h.init[self])
  ELSE Try(Pure(h, Log(h.init[self])), LAMBDA msg : Fail(h, "TypeError"))

\* ------------------------------------------------------------ nodes.FNode
\* self.record[tnode][n] = a
Recorded(h, self, tnode, n, a) ==
  [h EXCEPT !.record[self][tnode] =
     [v \in DOMAIN h.record[self][tnode] \cup {n} |->
        IF v = n THEN a ELSE h.record[self][tnode][v]]]

\* for n in nbrs[k..]: msg = msg.marginalize(n, normalize=False)
RECURSIVE Marginalized(_, _, _, _)
Marginalized(h, nbrs, k, msg) ==
  IF k > Len(nbrs) THEN Done(h, msg)
  ELSE IF msg.kind = "None" THEN Fail(h, "AttributeError")
  ELSE Try(Pure(h, Marginalize(msg, {nbrs[k]}, FALSE)),
           LAMBDA m : Marginalized(h, nbrs, k + 1, m.val))

\* for n in nbrs[k..]: self.record[tnode][n] = msg.argmax(n), and then
\* msg = msg.maximize(n, normalize=False)
RECURSIVE Maximized(_, _, _, _, _, _)
Maximized(h, self, tnode, nbrs, k, msg) ==
  IF k > Len(nbrs) THEN Done(h, msg)
  ELSE IF msg.kind = "None" THEN Fail(h, "AttributeError")
  ELSE Try(Pure(h, Argmax(msg, nbrs[k])),
           LAMBDA a :
             Try(Pure(Recorded(h, self, tnode, nbrs[k], a.val),
                      Maximize(msg, {nbrs[k]}, FALSE)),
                 LAMBDA m : Maximized(m.h, self, tnode, nbrs, k + 1, m.val)))

\* FNode.spa(tnode)
FNodeSpa(h, self, tnode) ==
  Try(Pure(h, neighbors(self, <<tnode>>)),
      LAMBDA nb : Try(Product(h, self, nb.val, 1, h.factor[self], <<>>),
                      LAMBDA p : Marginalized(p.h, nb.val, 1, p.val)))

\* self.record = {tnode: {}}
ClearAllRecords(h, self, tnode) ==
  [h EXCEPT !.record[self] = [t \in {tnode} |-> EmptyDict]]

\* self.record[tnode] = {}
ClearRecord(h, self, tnode) ==
  [h EXCEPT !.record[self] =
     [t \in DOMAIN h.record[self] \cup {tnode} |->
        IF t = tnode THEN EmptyDict ELSE h.record[self][t]]]

\* FNode.mpa(tnode), h0 being the objects after self.record[tnode] = {}
FNodeMpaFrom(h0, self, tnode) ==
  Try(Pure(h0, neighbors(self, <<tnode>>)),
      LAMBDA nb : Try(Product(h0, self, nb.val, 1, h0.factor[self], <<>>),
                      LAMBDA p : Maximized(p.h, self, tnode, nb.val, 1, p.val)))

FNodeMpa(h, self, tnode) == FNodeMpaFrom(ClearRecord(h, self, tnode), self, tnode)

\* FNode.msa(tnode), h0 being the objects after self.record[tnode] = {}: after
\* self.factor.log() comes self.neighbors(self.graph, self, tnode), two
\* arguments too many
FNodeMsaFrom(h0, self, tnode) ==
  IF h0.factor[self].kind = "None" THEN Fail(h0, "AttributeError")
  ELSE Try(Pure(h0, Log(h0.factor[self])), LAMBDA msg : Fail(h0, "TypeError"))

FNodeMsa(h, self, tnode) == FNodeMsaFrom(ClearRecord(h, self, tnode), self, tnode)

\* u.spa(v), u.mpa(v) or u.msa(v)
NodeMessage(alg, h, u, v) ==
  IF u \in VNodes
  THEN CASE alg = "spa" -> VNodeSpa(h, u, v)
         [] alg = "mpa" -> VNodeMpa(h, u, v)
         [] alg = "msa" -> VNodeMsa(h, u, v)
  ELSE CASE alg = "spa" -> FNodeSpa(h, u, v)
         [] alg = "mpa" -> FNodeMpa(h, u, v)
         [] alg = "msa" -> FNodeMsa(h, u, v)

\* ---------------------------------------------------------- inference.py
\* nx.dfs_edges(graph, source): the (parent, child) pairs of a depth-first
\* search over the successors, in discovery order
RECURSIVE DfsFrom(_, _, _)
DfsFrom(parent, k, acc) ==
  IF k > Len(succ[parent]) THEN acc
  ELSE IF succ[parent][k] \in acc.visited THEN DfsFrom(parent, k + 1, acc)
  ELSE DfsFrom(parent, k + 1,
               DfsFrom(succ[parent][k], 1,
                       [edges |-> Append(acc.edges, <<parent, succ[parent][k]>>),
                        visited |-> acc.visited \cup {succ[parent][k]}]))

dfs_edges(source) == DfsFrom(source, 1, [edges |-> <<>>, visited |-> {source}]).edges

\* one phase of the schedule: for each (u, v) of path[k..], msg = u.<alg>(v)
\* and graph[u][v]['object'].set_message(u, v, msg)
RECURSIVE Phase(_, _, _, _)
Phase(alg, h, path, k) ==
  IF k > Len(path) THEN Done(h, NoneVal)
  ELSE Try(NodeMessage(alg, h, path[k][1], path[k][2]),
           LAMBDA msg :
             Try(WriteMessage(msg.h, path[k][1], path[k][2], msg.val, alg = "msa"),
                 LAMBDA w : Phase(alg, w.h, path, k + 1)))

\* the path not reversed, each pair (v, u) read as u -> v
UnreversedPath(backward_path) ==
  [k \in 1..Len(backward_path) |-> <<backward_path[k][2], backward_path[k][1]>>]

\* the forward phase takes the reversed path, each pair (v, u) read as u -> v
forward_path(backward_path) ==
  [k \in 1..Len(backward_path) |->
     <<backward_path[Len(backward_path) + 1 - k][2],
       backward_path[Len(backward_path) + 1 - k][1]>>]

\* both phases of belief_propagation / max_product / max_sum
PhasesOver(alg, backward_path) ==
  Try(Phase(alg, Heap, forward_path(backward_path), 1),
      LAMBDA f : Phase(alg, f.h, backward_path, 1))

Phases(alg, query_node) == PhasesOver(alg, dfs_edges(query_node))

\* belief_propagation(graph, query_node)
belief_propagation(query_node) ==
  Try(Phases("spa", query_node), LAMBDA p : VNodeBelief(p.h, query_node, TRUE))

\* the back-tracking loop of max_product / max_sum over path[k..]
RECURSIVE BackTrack(_, _, _, _)
BackTrack(h, path, k, track) ==
  IF k > Len(path) THEN Ok(track)
  ELSE IF path[k][2] \notin FNodes THEN BackTrack(h, path, k + 1, track)
  ELSE IF path[k][1] \notin DOMAIN h.record[path[k][2]] THEN Raise("KeyError")
  ELSE BackTrack(h, path, k + 1, h.record[path[k][2]][path[k][1]] @@ track)

\* max_product(graph, query_node) with alg "mpa", max_sum with alg "msa"
MaxAlgorithm(alg, query_node) ==
  Try(Phases(alg, query_node),
      LAMBDA p :
        Try(VNodeArgmax(p.h, query_node),
            LAMBDA a :
              Try(Pure(a.h, BackTrack(a.h, dfs_edges(query_node), 1,
                                      query_node :> a.val)),
                  LAMBDA t :
                    Try(VNodeMaximum(t.h, query_node, TRUE),
                        LAMBDA m : Done(m.h, [maximum |-> m.val, track |-> t.val])))))

max_product(query_node) == MaxAlgorithm("mpa", query_node)

max_sum(query_node) == MaxAlgorithm("msa", query_node)

\* On a graph with a cycle a run reads messages of the run before it and the
\* numbers grow from run to run: the caller runs one schedule on such a graph.
CanRun == runs < (IF HasCycle THEN 1 ELSE MaxRuns)

\* the caller's call of one of the three, r being what it computes
Run(op, q, r) ==
  /\ edata' = r.h.edata
  /\ record' = r.h.record
  /\ init' = r.h.init
  /\ factor' = r.h.factor
  /\ outcome' = [op |-> op, args |-> <<q>>, exc |-> r.exc, val |-> r.val,
                 writes |-> r.h.writes]
  /\ UNCHANGED <<gnodes, succ, pred, ngraph, observed>>

\* query_node is None and the graph has no variable node: choice([])
NoChoice(op) ==
  /\ Querying /\ CanRun
  /\ get_vnodes = <<>>
  /\ outcome' = Raised(op, <<>>, "IndexError")
  /\ UNCHANGED <<gnodes, succ, pred, edata, ngraph, init, observed, factor, record, runs>>

\* sum_product(graph, query_node): q is the variable node given, or the one
\* that choice(graph.get_vnodes()) picks when none is given
SumProduct(q) ==
  /\ Querying /\ CanRun
  /\ runs' = runs + 1
  /\ q \in Range(get_vnodes)
  /\ Run("sum_product", q, belief_propagation(q))

MaxProduct(q) ==
  /\ Querying /\ CanRun
  /\ runs' = runs + 1
  /\ q \in Range(get_vnodes)
  /\ Run("max_product", q, max_product(q))

MaxSum(q) ==
  /\ Querying /\ CanRun
  /\ runs' = runs + 1
  /\ q \in Range(get_vnodes)
  /\ Run("max_sum", q, max_sum(q))

\* ------------------------------------------------------- the caller's reads
\* the caller's list(n.neighbors(exclusion))
Neighbors(n, iterator) ==
  /\ Building
  /\ outcome' = Result("neighbors", <<n, iterator>>, neighbors(n, iterator))
  /\ UNCHANGED <<gnodes, succ, pred, edata, ngraph, init, observed, factor, record, runs>>

\* FactorGraph.get_message(snode, tnode)
get_message(snode, tnode) ==
  IF <<snode, tnode>> \notin DOMAIN edata THEN Raise("KeyError")
  ELSE Ok(edata[<<snode, tnode>>]["msg"])

GetMessage(snode, tnode) ==
  /\ Querying
  /\ outcome' = Result("get_message", <<snode, tnode>>, get_message(snode, tnode))
  /\ UNCHANGED <<gnodes, succ, pred, edata, ngraph, init, observed, factor, record, runs>>

\* FactorGraph.get_incoming_messages(node, exclude_node): exclude is <<>> for
\* None, or the one excluded node
get_incoming_messages(node, exclude) ==
  LET us == SelectSeq(pred[node],
                      LAMBDA u : ~Contains(exclude, u) /\ ~Contains(exclude, node))
  IN [k \in 1..Len(us) |-> edata[<<us[k], node>>]["msg"]]

GetIncomingMessages(node, exclude) ==
  /\ Querying
  /\ InGraph(node)
  /\ outcome' = Returned("get_incoming_messages", <<node, exclude>>,
                         get_incoming_messages(node, exclude))
  /\ UNCHANGED <<gnodes, succ, pred, edata, ngraph, init, observed, factor, record, runs>>

\* the caller's n.belief(normalize)
Belief(n, normalize) ==
  /\ Querying
  /\ InGraph(n)
  /\ Run("belief", n, VNodeBelief(Heap, n, normalize))
  /\ UNCHANGED runs

\* ------------------------------------------------------ the mean-field operators
\* VNode.mf(tnode): self.belief(self.graph) hands the graph over as normalize,
\* and a graph with nodes is true
VNodeMf(h, self, tnode) ==
  IF observed[self] THEN Done(h, h.init[self])
  ELSE VNodeBelief(h, self, gnodes # <<>>)

\* FNode.mf(tnode): the local factor as it is
FNodeMf(h, self, tnode) == Done(h, h.factor[self])

\* the caller's n.mf(tnode), as the tests call the operators of a node
Mf(n, tnode) ==
  /\ Querying
  /\ InGraph(n)
  /\ Run("mf", <<n, tnode>>,
         IF n \in VNodes THEN VNodeMf(Heap, n, tnode) ELSE FNodeMf(Heap, n, tnode))
  /\ UNCHANGED runs

\* the caller's f.mpa(tnode) on a factor node, as the tests call the operators
Mpa(f, tnode) ==
  /\ Querying
  /\ InGraph(f)
  /\ Run("mpa", <<f, tnode>>, FNodeMpa(Heap, f, tnode))
  /\ UNCHANGED runs

\* ---------------------------------------------------------- the flooding schedule
\* order=None: attr["type"] of the nodes, which set_node adds without attributes
DefaultOrder == IF gnodes = <<>> THEN Ok(<<>>) ELSE Raise("KeyError")

\* for n in order: for neighbor in nx.all_neighbors(model, n):
\* getattr(n, method)(model, neighbor) has one argument too many
RECURSIVE Visit(_, _, _, _)
Visit(h, method, order, k) ==
  IF k > Len(order) THEN Done(h, NoneVal)
  ELSE IF ~InGraph(order[k]) THEN Fail(h, "NetworkXError")
  ELSE IF pred[order[k]] \o succ[order[k]] # <<>> THEN Fail(h, "TypeError")
  ELSE Visit(h, method, order, k + 1)

\* for n in query_node: b[n].append(n.belief(model)), a graph with nodes being
\* a true normalize
RECURSIVE QueryBeliefs(_, _, _, _)
QueryBeliefs(h, query_node, k, b) ==
  IF k > Len(query_node) THEN Done(h, b)
  ELSE Try(VNodeBelief(h, query_node[k], gnodes # <<>>),
           LAMBDA r :
             QueryBeliefs(r.h, query_node, k + 1,
                          [b EXCEPT ![query_node[k]] = Append(@, r.val)]))

\* for _ in range(iterations), from iteration i on
RECURSIVE Iterate(_, _, _, _, _, _, _)
Iterate(h, method, i, iterations, query_node, order, b) ==
  IF i > iterations THEN Done(h, b)
  ELSE Try(Visit(h, method, order, 1),
           LAMBDA v :
             Try(QueryBeliefs(v.h, query_node, 1, b),
                 LAMBDA r :
                   Iterate(r.h, method, i + 1, iterations, query_node, order, r.val)))

_schedule(method, iterations, query_node, order) ==
  Iterate(Heap, method, 1, iterations, query_node, order,
          [n \in Range(query_node) |-> <<>>])

\* order is [kind |-> "None"] or [kind |-> "list", nodes |-> the list given]
loopy_belief_propagation(iterations, query_node, order) ==
  IF order.kind = "None"
  THEN Try(Pure(Heap, DefaultOrder),
           LAMBDA o : _schedule("spa", iterations, query_node, o.val))
  ELSE _schedule("spa", iterations, query_node, order.nodes)

mean_field(iterations, query_node, order) ==
  IF order.kind = "None"
  THEN Try(Pure(Heap, DefaultOrder),
           LAMBDA o : _schedule("mf", iterations, query_node, o.val))
  ELSE _schedule("mf", iterations, query_node, order.nodes)

\* the query_node and order arguments the caller gives
Queries == {<<>>} \cup {<<v>> : v \in VNodes}
Orders ==
  {NoneVal} \cup {[kind |-> "list", nodes |-> o] : o \in {<<>>, get_fnodes \o get_vnodes}}

LoopyBeliefPropagation(iterations, query_node, order) ==
  /\ Building
  /\ Run("loopy_belief_propagation", <<iterations, query_node, order>>,
         loopy_belief_propagation(iterations, query_node, order))
  /\ UNCHANGED runs

MeanField(iterations, query_node, order) ==
  /\ Building
  /\ Run("mean_field", <<iterations, query_node, order>>,
         mean_field(iterations, query_node, order))
  /\ UNCHANGED runs

\* exclude_node arguments for node n: nothing, or a node of the other kind
IncomingExclusions(n) ==
  {<<>>} \cup {<<m>> : m \in IF n \in VNodes THEN FNodes ELSE VNodes}

Next ==
  \/ \E n \in Nodes : SetNode(n)
  \/ \E u \in VNodes, v \in FNodes : \E m \in Inits(u, v) : SetEdge(u, v, m)
  \/ SetEdgeObject
  \/ SetGraph
  \/ \E q \in VNodes : SumProduct(q)
  \/ \E q \in VNodes : MaxProduct(q)
  \/ \E q \in VNodes : MaxSum(q)
  \/ \E op \in {"sum_product", "max_product", "max_sum"} : NoChoice(op)
  \/ \E n \in Nodes, x \in Exclusions : Neighbors(n, x)
  \/ \E u \in VNodes, v \in FNodes : GetMessage(u, v) \/ GetMessage(v, u)
  \/ \E n \in Nodes : \E x \in IncomingExclusions(n) : GetIncomingMessages(n, x)
  \/ \E n \in VNodes, b \in BOOLEAN : Belief(n, b)
  \/ \E u \in VNodes, v \in FNodes : Mf(u, v) \/ Mf(v, u)
  \/ \E f \in FNodes, t \in VNodes : Mpa(f, t)
  \/ \E i \in 0..MaxIterations, q \in Queries, o \in Orders :
       LoopyBeliefPropagation(i, q, o)
  \/ \E i \in 0..MaxIterations, q \in Queries, o \in Orders : MeanField(i, q, o)

Spec == Init /\ [][Next]_vars

\* ------------------------------------------------------- the joint distribution
\* the variable and the factor nodes of the graph
GraphV == Range(get_vnodes)
GraphF == Range(get_fnodes)

\* every factor node of the graph has a Discrete factor over exactly the
\* variable nodes it is connected to
Factorized ==
  \A f \in GraphF :
    /\ factor[f].kind = "Discrete"
    /\ Range(factor[f].dim) = Range(succ[f])
    /\ \A i \in DOMAIN factor[f].dim : factor[f].shape[i] = NumStates(factor[f].dim[i])

\* a tree-structured factor graph with Discrete factors
TreeGraph == IsTree /\ GraphV # {} /\ GraphF # {} /\ Factorized

\* the factors are strictly positive
Positive ==
  \A f \in GraphF : \A ix \in Idx(factor[f].shape) : factor[f].pmf[ix] > 0

\* the joint assignments of the variables of the graph
Assignments ==
  {a \in [GraphV -> 0..NumV] : \A v \in GraphV : a[v] < NumStates(v)}

\* the product of all factors at the assignment a
RECURSIVE WeightOver(_, _)
WeightOver(fs, a) ==
  IF fs = <<>> THEN 1
  ELSE factor[Head(fs)].pmf[[i \in DOMAIN factor[Head(fs)].dim |->
                               a[factor[Head(fs)].dim[i]]]]
       * WeightOver(Tail(fs), a)

WeightOf(a) == WeightOver(get_fnodes, a)

Weights == [a \in Assignments |-> WeightOf(a)]

\* brute force: the unnormalized marginal of q, the sum of all weights, and
\* the greatest weight
MarginalOf(q) ==
  [s \in 0..(NumStates(q) - 1) |-> SetSum({a \in Assignments : a[q] = s}, Weights)]

TotalWeight == SetSum(Assignments, Weights)

MaxWeight ==
  CHOOSE m \in Range(Weights) : \A a \in Assignments : Weights[a] <= m

\* b is the normalized marginal of q: over (q,), and b.pmf / b.den is
\* MarginalOf(q) / TotalWeight
ExactBelief(b, q) ==
  /\ b.kind = "Discrete"
  /\ b.dim = <<q>>
  /\ b.shape = <<NumStates(q)>>
  /\ \A s \in 0..(NumStates(q) - 1) :
       b.pmf[<<s>>] * TotalWeight = MarginalOf(q)[s] * b.den

\* this step is a call of one of the schedules ops
RunStep(ops) == runs' = runs + 1 /\ outcome'.op \in ops

Schedules == {"sum_product", "max_product", "max_sum"}

\* ------------------------------------------------------------------ claims
\* C1: on every tree factor graph with Discrete factors and for every variable
\* node q, sum_product(G, q) returns a belief over (q,) whose pmf is the
\* normalized marginal of q under the product of all factors.
C1_SumProductExactMarginal ==
  [][(TreeGraph /\ RunStep({"sum_product"}))
       => /\ outcome'.exc = "none"
          /\ ExactBelief(outcome'.val, outcome'.args[1])]_vars

\* C2: after sum_product(G, q) on a tree has completed, the belief of every
\* variable node of G is that node's exact normalized marginal, whichever
\* node q was.
\* (r: the run, r.h the objects as it leaves them; b: v.belief() after it)
ExactAfter(b, v) == b.exc = "none" /\ ExactBelief(b.val, v)

AllBeliefsExactAfter(r) ==
  r.exc = "none" => \A v \in GraphV : ExactAfter(VNodeBelief(r.h, v, TRUE), v)

C2_AllBeliefsExact ==
  [][(TreeGraph /\ RunStep({"sum_product"}))
       => AllBeliefsExactAfter(belief_propagation(outcome'.args[1]))]_vars

\* C3: in one run of a schedule on a tree, the message of every directed edge
\* of the graph is set exactly once.
C3_EachSlotWrittenOnce ==
  [][(TreeGraph /\ RunStep(Schedules))
       => \A e \in DOMAIN edata :
            Cardinality({k \in DOMAIN outcome'.writes : outcome'.writes[k] = e}) = 1]_vars

\* C4: on every tree factor graph with Discrete factors and for every variable
\* node q, the assignment max_product(G, q) returns maximizes the product of
\* all factors.
C4_MaxProductIsMAP ==
  [][(TreeGraph /\ RunStep({"max_product"}))
       => /\ outcome'.exc = "none"
          /\ outcome'.val.track \in Assignments
          /\ WeightOf(outcome'.val.track) = MaxWeight]_vars

\* C5: the argmax map max_product / max_sum return on a tree has exactly the
\* variable nodes of the graph as keys, and each value is a state index of its
\* variable.
C5_TrackKeysAndValues ==
  [][(TreeGraph /\ RunStep({"max_product", "max_sum"}))
       => /\ outcome'.exc = "none"
          /\ DOMAIN outcome'.val.track = GraphV
          /\ \A v \in GraphV : outcome'.val.track[v] \in 0..(NumStates(v) - 1)]_vars

\* C6: on every tree factor graph with strictly positive Discrete factors,
\* max_sum(G, q) completes and returns the argmax assignment that
\* max_product(G, q) returns.
C6_MaxSumEqualsMaxProduct ==
  [][(TreeGraph /\ Positive /\ RunStep({"max_sum"}))
       => /\ outcome'.exc = "none"
          /\ max_product(outcome'.args[1]).exc = "none"
          /\ outcome'.val.track = max_product(outcome'.args[1]).val.track]_vars

\* C7: after max_product(G, q) on a tree, the greatest entry of the
\* unnormalized belief of every variable node of the graph is the maximum of
\* the product of all factors over the joint assignments.
\* (r: the run, r.h the objects as it leaves them; m: v.maximum(False) after it)
IsMaxWeight(m) == m.exc = "none" /\ m.val.num = MaxWeight * m.val.den

MaximumEverywhereAfter(r) ==
  r.exc = "none" => \A v \in GraphV : IsMaxWeight(VNodeMaximum(r.h, v, FALSE))

C7_MaximumAtEveryNode ==
  [][(TreeGraph /\ RunStep({"max_product"}))
       => MaximumEverywhereAfter(max_product(outcome'.args[1]))]_vars

\* the message the schedule has stored for the directed edge e
Stored(e) == EdgeGetMessage(edata[e]["object"], e[1], e[2]).val

\* C8: after a run of a schedule on a tree, get_message(u, v) returns the
\* message the schedule stored for the directed edge (u, v), and
\* get_incoming_messages(v) the messages it stored for the edges into v.
C8_ReadsSeeScheduleWrites ==
  [][(TreeGraph /\ RunStep(Schedules))
       => \A e \in Range(outcome'.writes) :
            /\ get_message(e[1], e[2])'.val = Stored(e)'
            /\ Contains(get_incoming_messages(e[2], <<>>)', Stored(e)')]_vars

\* C9: for a node n of the graph, n.neighbors(X) yields the nodes adjacent to
\* n that are not in X, each exactly once (X: nothing, one node, or a list).
C9_NeighborsEachOnce ==
  (outcome.op = "neighbors" /\ InGraph(outcome.args[1]))
    => /\ outcome.exc = "none"
       /\ Range(outcome.val) = Range(succ[outcome.args[1]]) \ Range(outcome.args[2])
       /\ \A i, j \in DOMAIN outcome.val : outcome.val[i] = outcome.val[j] => i = j

\* C10: after set_edge(u, v) both directed edges exist, and each holds the
\* unity of the variable node of the edge, also when no init was passed.
C10_SetEdgeUnity ==
  outcome.op = "set_edge"
    => \A e \in {<<outcome.args[1], outcome.args[2]>>,
                 <<outcome.args[2], outcome.args[1]>>} :
         /\ e \in DOMAIN edata
         /\ SameValue(get_message(e[1], e[2]).val,
                      Unity(<<CHOOSE n \in {e[1], e[2]} : n \in VNodes>>))

\* ------------------------------------------------------- message claims
\* the directed edges of the graph that carry an Edge object
ObjectEdges == {e \in DOMAIN edata : "object" \in DOMAIN edata[e]}

\* C18: in every state during or after an inference run, the message stored
\* on a directed edge from a variable node x to a factor node is over (x,)
\* and has one axis, also after the factor node has read it and multiplied
\* it with its factor.
C18_VariableMessageDim ==
  \A e \in ObjectEdges :
    (e[1] \in VNodes /\ AfterRun /\ Stored(e).kind = "Discrete")
      => /\ Stored(e).dim = <<e[1]>>
         /\ Len(Stored(e).shape) = 1

SameResult(op, a, b) ==
  IF op = "sum_product" THEN SameValue(a, b)
  ELSE /\ a.track = b.track
       /\ a.maximum.num * b.maximum.den = b.maximum.num * a.maximum.den

\* this step is a flooding run
FloodStep == outcome'.op \in FloodOps

\* C20: an inference run leaves the nodes as they are: the init of every
\* variable node (leaves included) and the factor of every factor node are
\* the same after sum_product, max_product or a flooding run as before it, so
\* that the same run made a second time returns the same belief.
C20_RunLeavesNodes ==
  [][/\ (TreeGraph /\ (RunStep({"sum_product", "max_product"}) \/ FloodStep))
          => init' = init /\ factor' = factor
     /\ (/\ TreeGraph /\ RunStep({"sum_product", "max_product"})
         /\ outcome.op = outcome'.op /\ outcome.args = outcome'.args
         /\ outcome.exc = "none")
          => /\ outcome'.exc = "none"
             /\ SameResult(outcome.op, outcome'.val, outcome.val)]_vars

\* ------------------------------------------------------- edge flag and records
\* the graph as the tests and the example complete it: every edge has its
\* Edge object and every node its graph
Completed == Factorized /\ ~NoEdges /\ HasObjects /\ Attached

\* C23: after max_sum has run on a tree every edge of the graph is flagged
\* logarithmic, and after sum_product or max_product has run none is, also
\* when an earlier run was a max_sum.
C23_LogarithmicFlag ==
  [][/\ (TreeGraph /\ HasObjects /\ Attached /\ RunStep({"max_sum"}))
          => /\ outcome'.exc = "none"
             /\ \A e \in ObjectEdges : edata'[e]["object"].logarithmic
     /\ (/\ TreeGraph /\ HasObjects /\ Attached
         /\ RunStep({"sum_product", "max_product"}) /\ outcome'.exc = "none")
          => \A e \in ObjectEdges : ~edata'[e]["object"].logarithmic]_vars

\* this step is the caller's f.mpa(t), which returned
MpaStep == outcome'.op = "mpa" /\ outcome'.exc = "none"

\* C24: a sum_product or flooding run leaves the record of every factor node
\* as it was; after f.mpa(t) the keys of f.record[t] are the neighbors of f
\* other than t, the records of f for other targets are as they were, and so
\* are the records of the other factor nodes.
C24_RecordsWrittenByMpaOnly ==
  [][/\ (RunStep({"sum_product"}) \/ FloodStep) => record' = record
     /\ MpaStep
          => /\ DOMAIN record'[outcome'.args[1][1]][outcome'.args[1][2]]
                  = Range(succ[outcome'.args[1][1]]) \ {outcome'.args[1][2]}
             /\ \A t \in DOMAIN record[outcome'.args[1][1]] \ {outcome'.args[1][2]} :
                  /\ t \in DOMAIN record'[outcome'.args[1][1]]
                  /\ record'[outcome'.args[1][1]][t] = record[outcome'.args[1][1]][t]
             /\ \A g \in FNodes \ {outcome'.args[1][1]} : record'[g] = record[g]]_vars

\* f.mpa(t) has recorded the other neighbor of f, and f has a record for its
\* other target from an earlier max_product run
C24_Witness ==
  /\ outcome.op = "mpa" /\ outcome.exc = "none"
  /\ DOMAIN record[outcome.args[1][1]][outcome.args[1][2]] # {}
  /\ \E t \in DOMAIN record[outcome.args[1][1]] \ {outcome.args[1][2]} :
       DOMAIN record[outcome.args[1][1]][t] # {}

\* the dfs edges (u, v) of the run from q whose v is a factor node
FactorEdges(q) == Range(SelectSeq(dfs_edges(q), LAMBDA e : e[2] \in FNodes))

\* C26: back-tracking after max_product on a tree handles the edges in
\* discovery order, so that at an edge (u, v) with v a factor node argmax[u]
\* is assigned; each variable k of v.record[u] then gets the recorded argmax
\* of k for u at argmax[u], as v recorded it when it sent its message to u:
\* no other state of k gives the factors a greater product with the rest of
\* the assignment.
C26_BackTrackFollowsArgmax ==
  [][(/\ TreeGraph /\ HasObjects /\ Attached
      /\ RunStep({"max_product"}) /\ outcome'.exc = "none")
       => \A e \in FactorEdges(outcome'.args[1]) :
            \A k \in DOMAIN record'[e[2]][e[1]] :
              /\ outcome'.val.track \in Assignments
              /\ \A j \in 0..(NumStates(k) - 1) :
                   WeightOf([outcome'.val.track EXCEPT ![k] = j])
                     <= WeightOf(outcome'.val.track)]_vars

\* C29: in a run of the tree schedule on a tree, when the message u -> v is
\* computed (and stored), the message w -> u of every other neighbor w of u
\* has been stored earlier in the same run.
C29_InputsWrittenBefore ==
  (outcome.op \in Schedules /\ IsTree)
    => \A i \in DOMAIN outcome.writes :
         \A w \in Range(succ[outcome.writes[i][1]]) \ {outcome.writes[i][2]} :
           \E j \in 1..(i - 1) : outcome.writes[j] = <<w, outcome.writes[i][1]>>

\* a run from an inner node of the chain of four nodes has stored all six
\* messages
C29_Witness ==
  /\ outcome.op \in Schedules /\ IsTree /\ outcome.exc = "none"
  /\ Len(outcome.writes) = 6
  /\ Len(succ[outcome.args[1]]) = 2

\* the directed slots of the depth-first tree of the run from q, both ways
TreeSlots(q) ==
  Range(dfs_edges(q)) \cup {<<e[2], e[1]>> : e \in Range(dfs_edges(q))}

\* C30: sum_product and max_product on a graph with a cycle do not raise:
\* the run makes one forward and one backward pass over the depth-first tree
\* edges alone, writes each of their directed slots once, and leaves the
\* slots of every other edge as they were.
C30_CycleRunsOnePass ==
  [][(/\ HasCycle /\ Completed
      /\ RunStep({"sum_product", "max_product"}))
       => /\ outcome'.exc = "none"
          /\ Range(outcome'.writes) = TreeSlots(outcome'.args[1])
          /\ Len(outcome'.writes) = Cardinality(TreeSlots(outcome'.args[1]))
          /\ \A e \in ObjectEdges \ TreeSlots(outcome'.args[1]) :
               Stored(e)' = Stored(e)]_vars

\* ------------------------------------------------------- flooding claims
\* the arguments of the flooding run this step makes
FloodIterations == outcome'.args[1][1]
FloodQuery == outcome'.args[1][2]
FloodOrder == outcome'.args[1][3]

\* the directed slots one iteration over order writes, in the order it writes
\* them: for each node n of order, n -> m once for each neighbor m of n
RECURSIVE FloodSlots(_, _)
FloodSlots(order, k) ==
  IF k > Len(order) THEN <<>>
  ELSE [i \in 1..Len(succ[order[k]]) |-> <<order[k], succ[order[k]][i]>>]
       \o FloodSlots(order, k + 1)

\* C21: a flooding run of one iteration over a given order visits the nodes
\* in that order and computes and stores the message n -> m exactly once for
\* each neighbor m of each visited node n, in that sequence.
C21_FloodingWritesInOrder ==
  [][(/\ FloodStep /\ Completed
      /\ FloodOrder.kind = "list" /\ FloodIterations = 1 /\ FloodQuery = <<>>)
       => /\ outcome'.exc = "none"
          /\ outcome'.writes = FloodSlots(FloodOrder.nodes, 1)]_vars

\* C22: loopy_belief_propagation(G, N, Q, order) returns a dict whose keys
\* are the nodes of Q and whose value for each q is the list of the N beliefs
\* of q, one for each iteration; with N = 0 no slot is written and every
\* list is empty.
C22_LoopyReturnsHistories ==
  [][(/\ FloodStep /\ outcome'.op = "loopy_belief_propagation"
      /\ Completed
      /\ FloodOrder.kind = "list" /\ Range(FloodQuery) \subseteq GraphV)
       => /\ outcome'.exc = "none"
          /\ DOMAIN outcome'.val = Range(FloodQuery)
          /\ \A q \in Range(FloodQuery) : Len(outcome'.val[q]) = FloodIterations
          /\ FloodIterations = 0 => outcome'.writes = <<>>]_vars

\* C27: without an order, loopy_belief_propagation and mean_field succeed on
\* every graph built with set_nodes / set_edge, and an iteration visits all
\* factor nodes of the graph and then all variable nodes, each once.
C27_DefaultOrderSucceeds ==
  [][(/\ FloodStep /\ FloodOrder.kind = "None"
      /\ gnodes # <<>> /\ FloodQuery = <<>>)
       => /\ outcome'.exc = "none"
          /\ (FloodIterations = 1 /\ Completed)
               => outcome'.writes = FloodSlots(get_fnodes \o get_vnodes, 1)]_vars

\* ------------------------------------------------- rv.Gaussian (information form)
\* a + b on numpy arrays (elementwise, broadcast)
ArrAdd(a, b) ==
  LET r == IF Len(a.shape) > Len(b.shape) THEN Len(a.shape) ELSE Len(b.shape)
      p1 == Ones(r - Len(a.shape)) \o a.shape
      p2 == Ones(r - Len(b.shape)) \o b.shape
      shape == [i \in 1..r |-> IF p1[i] = 1 THEN p2[i] ELSE p1[i]]
      at(x, p, ix) == LET full == [i \in 1..r |-> IF p[i] = 1 THEN 0 ELSE ix[i]]
                      IN x.pmf[SubSeq(full, r - Len(x.shape) + 1, r)]
  IN Arr(shape, [ix \in Idx(shape) |-> at(a, p1, ix) + at(b, p2, ix)])

\* np.allclose(a, b) on arrays of exact numbers: broadcast, then all entries equal
ArrAllClose(a, b) ==
  LET r == IF Len(a.shape) > Len(b.shape) THEN Len(a.shape) ELSE Len(b.shape)
      p1 == Ones(r - Len(a.shape)) \o a.shape
      p2 == Ones(r - Len(b.shape)) \o b.shape
      shape == [i \in 1..r |-> IF p1[i] = 1 THEN p2[i] ELSE p1[i]]
      at(x, p, ix) == LET full == [i \in 1..r |-> IF p[i] = 1 THEN 0 ELSE ix[i]]
                      IN x.pmf[SubSeq(full, r - Len(x.shape) + 1, r)]
  IN \A ix \in Idx(shape) : at(a, p1, ix) = at(b, p2, ix)

\* Gaussian.inf_form: precision matrix W and precision-mean vector Wm over args
GaussianInf(W, Wm, args) ==
  [kind |-> "Gaussian", dim |-> args, W |-> W, Wm |-> Wm, obj |-> <<"new">>]

\* Gaussian.__mul__
GaussianMul(self, other) ==
  MulOperands(self, other,
              IF ~BroadcastOk(self.W.shape, other.W.shape)
                 \/ ~BroadcastOk(self.Wm.shape, other.Wm.shape)
              THEN Raise("ValueError")
              ELSE Ok(GaussianInf(ArrAdd(self.W, other.W), ArrAdd(self.Wm, other.Wm),
                                  self.dim)))

\* Gaussian.__eq__
GaussianEq(self, other) ==
  IF ~BroadcastOk(self.W.shape, other.W.shape)
     \/ ~BroadcastOk(self.Wm.shape, other.Wm.shape)
  THEN Raise("ValueError")
  ELSE Ok(/\ ArrAllClose(self.W, other.W)
          /\ ArrAllClose(self.Wm, other.Wm)
          /\ self.dim = other.dim)

\* Discrete.__eq__: np.allclose of the two pmf (entries pmf / den), same dim
DiscreteEq(self, other) ==
  IF ~BroadcastOk(self.shape, other.shape) THEN Raise("ValueError")
  ELSE Ok(/\ ArrAllClose(Arr(self.shape, [ix \in Idx(self.shape) |-> self.pmf[ix] * other.den]),
                         Arr(other.shape, [ix \in Idx(other.shape) |-> other.pmf[ix] * self.den]))
          /\ self.dim = other.dim)

\* Discrete.argmax(): np.unravel_index of the first maximal entry
ArgmaxAll(self) == Ok(ArrArgmax(Arr(self.shape, self.pmf)))

\* self * other: Python calls the __mul__ of the class of self
Times(self, other) ==
  IF self.kind = "Discrete" THEN Mul(self, other) ELSE GaussianMul(self, other)

\* --------------------------------------------- rv.Discrete addition, subtraction
\* np.array(self.pmf, ndmin=1), as np.convolve takes its arguments
AtLeast1d(self) ==
  IF self.shape = <<>> THEN Arr(<<1>>, [ix \in Idx(<<1>>) |-> self.pmf[<<>>]])
  ELSE Arr(self.shape, self.pmf)

\* self.pmf[::-1]: the first axis reversed (a 0-d array cannot be indexed)
Flipped(self) ==
  IF self.shape = <<>> THEN Raise("IndexError")
  ELSE Ok([self EXCEPT !.pmf =
             [ix \in Idx(self.shape) |->
                self.pmf[[ix EXCEPT ![1] = self.shape[1] - 1 - ix[1]]]]])

\* entry k of the full convolution of the one-dimensional arrays a and v
ConvolveAt(a, v, k) ==
  SetSum({i \in 0..(a.shape[1] - 1) : (k - i) \in 0..(v.shape[1] - 1)},
         [i \in 0..(a.shape[1] - 1) |->
            IF (k - i) \in 0..(v.shape[1] - 1) THEN a.pmf[<<i>>] * v.pmf[<<k - i>>]
            ELSE 0])

\* mode 'same': the middle len(a) entries, a being the longer array
ConvolveSame(a, v) ==
  Arr(a.shape,
      [ix \in Idx(a.shape) |-> ConvolveAt(a, v, ix[1] + ((v.shape[1] - 1) \div 2))])

\* np.convolve(a, v, 'same')
Convolve(a, v) ==
  IF Len(a.shape) > 1 \/ Len(v.shape) > 1 THEN Raise("ValueError")
  ELSE IF v.shape[1] > a.shape[1] THEN Ok(ConvolveSame(v, a))
  ELSE Ok(ConvolveSame(a, v))

\* Discrete(pmf, self.dim): the tuple self.dim is the one positional argument
Convolved(self, other, c) ==
  IF c.exc # "none" THEN c
  ELSE Discrete(c.val.shape, c.val.pmf, self.den * other.den, <<self.dim>>)

\* Discrete.__add__
Add(self, other) ==
  Convolved(self, other, Convolve(AtLeast1d(self), AtLeast1d(other)))

\* Discrete.__sub__
SubFlipped(self, other, f) ==
  IF f.exc # "none" THEN f
  ELSE Convolved(self, other, Convolve(AtLeast1d(f.val), AtLeast1d(other)))

Sub(self, other) == SubFlipped(self, other, Flipped(self))

\* Discrete.__iadd__ and Discrete.__isub__
IAdd(self, other) == Add(self, other)
ISub(self, other) == Sub(self, other)

\* ------------------------------------- random variables used on their own
\* A caller holds two random variable objects and applies the operations of
\* rv.Discrete / rv.Gaussian to them; outcome.operands are the two objects as
\* they are now, outcome.args the objects as the last call received them.
MaxRank == 2
MaxSeed == 2

\* tuples of distinct variable nodes
RvDims ==
  {d \in UNION {[1..n -> VNodes] : n \in 0..MaxRank} :
     \A i, j \in DOMAIN d : d[i] = d[j] => i = j}

ShapeOf(d) == [i \in DOMAIN d |-> NumStates(d[i])]

\* a table of positive numbers of the given shape
RvTable(shape, s) ==
  [ix \in Idx(shape) |->
     1 + ((s + (s + 1) * FlatIdx(ix, shape) + FlatIdx(ix, shape) * FlatIdx(ix, shape)) % 4)]

RvDiscretes ==
  {Discrete(ShapeOf(d), RvTable(ShapeOf(d), s), 1, d).val : d \in RvDims, s \in 0..MaxSeed}
  \cup {Unity(d) : d \in RvDims}

\* Gaussian.inf_form(W, Wm, *d): seed 0 is zero precision and zero precision-mean
RvGaussians ==
  {GaussianInf(Arr(<<Len(d), Len(d)>>,
                   [ix \in Idx(<<Len(d), Len(d)>>) |->
                      IF s = 0 THEN 0 ELSE IF ix[1] = ix[2] THEN s + ix[1] + 1 ELSE 1]),
               Arr(<<Len(d), 1>>,
                   [ix \in Idx(<<Len(d), 1>>) |-> IF s = 0 THEN 0 ELSE s + ix[1]]),
               d) : d \in RvDims \ {<<>>}, s \in 0..MaxSeed}

Operand(v, k) == [v EXCEPT !.obj = <<"arg", k>>]

RvOutcome(op, args, params, r, operands) ==
  [op |-> op, args |-> args, params |-> params, exc |-> r.exc, val |-> r.val,
   writes |-> <<>>, operands |-> operands]

RvInit ==
  /\ gnodes = <<>>
  /\ succ = [n \in Nodes |-> <<>>]
  /\ pred = [n \in Nodes |-> <<>>]
  /\ edata = EmptyDict
  /\ ngraph = [n \in Nodes |-> "None"]
  /\ init = [n \in VNodes |-> [Unity(<<n>>) EXCEPT !.obj = <<"init", n>>]]
  /\ observed = [n \in VNodes |-> FALSE]
  /\ factor = [f \in FNodes |-> NoneVal]
  /\ record = [f \in FNodes |-> EmptyDict]
  /\ runs = 0
  /\ \E p \in (RvDiscretes \X RvDiscretes) \cup (RvGaussians \X RvGaussians) :
       outcome = RvOutcome("operands", <<>>, <<>>, Ok(NoneVal),
                           <<Operand(p[1], 1), Operand(p[2], 2)>>)

RvFrame ==
  UNCHANGED <<gnodes, succ, pred, edata, ngraph, init, observed, factor, record, runs>>

\* Discrete(a.pmf, *args) for the array of operand i
RvConstruct(i, args) ==
  /\ outcome.operands[i].kind = "Discrete"
  /\ outcome' = RvOutcome("Discrete", <<outcome.operands[i]>>, <<args>>,
                          Discrete(outcome.operands[i].shape, outcome.operands[i].pmf,
                                   outcome.operands[i].den, args),
                          outcome.operands)
  /\ RvFrame

\* operand i * the other operand
RvMulOutcome(i, self, other, r) ==
  RvOutcome("__mul__", <<self, other>>, <<>>, r,
            [k \in 1..2 |-> IF k = i THEN r.self ELSE r.other])

RvMul(i) ==
  /\ outcome' = RvMulOutcome(i, outcome.operands[i], outcome.operands[3 - i],
                             Times(outcome.operands[i], outcome.operands[3 - i]))
  /\ RvFrame

\* operand i .marginalize(*dims, normalize=normalize)
RvMarginalize(i, dims, normalize) ==
  /\ outcome.operands[i].kind = "Discrete"
  /\ outcome' = RvOutcome("marginalize", <<outcome.operands[i]>>, <<dims, normalize>>,
                          Marginalize(outcome.operands[i], dims, normalize),
                          outcome.operands)
  /\ RvFrame

\* operand i .maximize(*dims, normalize=normalize)
RvMaximize(i, dims, normalize) ==
  /\ outcome.operands[i].kind = "Discrete"
  /\ outcome' = RvOutcome("maximize", <<outcome.operands[i]>>, <<dims, normalize>>,
                          Maximize(outcome.operands[i], dims, normalize),
                          outcome.operands)
  /\ RvFrame

\* operand i .argmax(dim)
RvArgmax(i, dim) ==
  /\ outcome.operands[i].kind = "Discrete"
  /\ outcome' = RvOutcome("argmax", <<outcome.operands[i]>>, <<dim>>,
                          Argmax(outcome.operands[i], dim), outcome.operands)
  /\ RvFrame

\* operand i .argmax()
RvArgmaxAll(i) ==
  /\ outcome.operands[i].kind = "Discrete"
  /\ outcome' = RvOutcome("argmax", <<outcome.operands[i]>>, <<>>,
                          ArgmaxAll(outcome.operands[i]), outcome.operands)
  /\ RvFrame

\* operand i + the other operand, and operand i += the other operand (which
\* binds the caller's name to the result, the operand objects staying)
RvAdd(i, augmented) ==
  /\ outcome.operands[i].kind = "Discrete"
  /\ outcome' = RvOutcome(IF augmented THEN "__iadd__" ELSE "__add__",
                          <<outcome.operands[i], outcome.operands[3 - i]>>, <<>>,
                          IF augmented
                          THEN IAdd(outcome.operands[i], outcome.operands[3 - i])
                          ELSE Add(outcome.operands[i], outcome.operands[3 - i]),
                          outcome.operands)
  /\ RvFrame

\* operand i - the other operand, and operand i -= the other operand
RvSub(i, augmented) ==
  /\ outcome.operands[i].kind = "Discrete"
  /\ outcome' = RvOutcome(IF augmented THEN "__isub__" ELSE "__sub__",
                          <<outcome.operands[i], outcome.operands[3 - i]>>, <<>>,
                          IF augmented
                          THEN ISub(outcome.operands[i], outcome.operands[3 - i])
                          ELSE Sub(outcome.operands[i], outcome.operands[3 - i]),
                          outcome.operands)
  /\ RvFrame

RvNext ==
  \/ \E i \in 1..2, args \in RvDims : RvConstruct(i, args)
  \/ \E i \in 1..2 : RvMul(i)
  \/ \E i \in 1..2, dims \in SUBSET VNodes, normalize \in BOOLEAN :
       RvMarginalize(i, dims, normalize)
  \/ \E i \in 1..2, dims \in SUBSET VNodes, normalize \in BOOLEAN :
       RvMaximize(i, dims, normalize)
  \/ \E i \in 1..2, dim \in VNodes : RvArgmax(i, dim)
  \/ \E i \in 1..2 : RvArgmaxAll(i)
  \/ \E i \in 1..2, augmented \in BOOLEAN : RvAdd(i, augmented)
  \/ \E i \in 1..2, augmented \in BOOLEAN : RvSub(i, augmented)

RvSpec == RvInit /\ [][RvNext]_vars

\* ------------------------------------------------------------- rv claims
\* C11: Discrete(pmf, *dims) raises ParameterException whenever the number of
\* dimensions of pmf differs from the number of dims, and otherwise returns
\* a Discrete whose dim is the given tuple of variable nodes, in that order.
C11_ConstructionChecksRank ==
  outcome.op = "Discrete"
    => /\ Len(outcome.args[1].shape) # Len(outcome.params[1])
            => outcome.exc = "ParameterException"
       /\ Len(outcome.args[1].shape) = Len(outcome.params[1])
            => /\ outcome.exc = "none"
               /\ outcome.val.dim = outcome.params[1]

C11_Witness ==
  /\ outcome.op = "Discrete"
  /\ Len(outcome.args[1].shape) # Len(outcome.params[1])
  /\ outcome.exc = "ParameterException"

\* a Discrete as a caller builds it: one axis per dim, of that variable's size
WellFormed(a) == a.kind = "Discrete" /\ a.shape = ShapeOf(a.dim)

\* the entry of a at the sub-assignment of the joint assignment ix over dims
EntryAt(a, dims, ix) ==
  a.pmf[[i \in DOMAIN a.dim |-> ix[CHOOSE k \in DOMAIN dims : dims[k] = a.dim[i]]]]

\* C12: for Discrete a and b, (a * b).dim is the dim of the longer operand
\* (of the left one when they are equally long), it contains every dim of a
\* and of b, and each entry of the product is the product of the entries of
\* a and b at the corresponding sub-assignments, axes matched by variable.
C12_ProductAlignsByDim ==
  (outcome.op = "__mul__" /\ WellFormed(outcome.args[1]) /\ WellFormed(outcome.args[2]))
    => /\ outcome.exc = "none"
       /\ outcome.val.dim = IF Len(outcome.args[1].dim) < Len(outcome.args[2].dim)
                            THEN outcome.args[2].dim ELSE outcome.args[1].dim
       /\ Range(outcome.args[1].dim) \cup Range(outcome.args[2].dim)
            \subseteq Range(outcome.val.dim)
       /\ outcome.val.shape = ShapeOf(outcome.val.dim)
       /\ \A ix \in Idx(outcome.val.shape) :
            outcome.val.pmf[ix]
              = EntryAt(outcome.args[1], outcome.val.dim, ix)
                  * EntryAt(outcome.args[2], outcome.val.dim, ix)

\* u is the object Discrete.unity(*a.dim) returns
IsUnityOf(u, a) ==
  /\ u.kind = "Discrete" /\ a.kind = "Discrete"
  /\ Len(a.shape) = Len(a.dim)
  /\ [u EXCEPT !.obj = <<"new">>] = Unity(a.dim)

\* the result of the call compares equal (==) to operand a as the call left
\* it, and has the shape and the dim a had
EqualsOperand(a, after) ==
  /\ outcome.exc = "none"
  /\ DiscreteEq(outcome.val, after) = Ok(TRUE)
  /\ outcome.val.shape = a.shape
  /\ outcome.val.dim = a.dim

\* C13: for every Discrete a, a * Discrete.unity(*a.dim) == a and
\* Discrete.unity(*a.dim) * a == a, the product having a's shape and dim.
C13_UnityIsIdentity ==
  outcome.op = "__mul__"
    => /\ IsUnityOf(outcome.args[2], outcome.args[1])
            => \E i \in 1..2 : /\ outcome.operands[i].obj = outcome.args[1].obj
                               /\ EqualsOperand(outcome.args[1], outcome.operands[i])
       /\ IsUnityOf(outcome.args[1], outcome.args[2])
            => \E i \in 1..2 : /\ outcome.operands[i].obj = outcome.args[2].obj
                               /\ EqualsOperand(outcome.args[2], outcome.operands[i])

C13_Witness ==
  /\ outcome.op = "__mul__"
  /\ IsUnityOf(outcome.args[1], outcome.args[2])
  /\ Len(outcome.args[2].dim) = MaxRank
  /\ \E ix \in Idx(outcome.args[2].shape) : outcome.args[2].pmf[ix] > 1
  /\ outcome.exc = "none"
  /\ outcome.val.pmf = outcome.args[2].pmf

\* all entries of the array are zero
IsZero(a) == \A ix \in Idx(a.shape) : a.pmf[ix] = 0

\* C14: for Gaussians a and b over the same dim, a * b has precision
\* W_a + W_b, precision-mean Wm_a + Wm_b and dim a.dim, equals b * a, and
\* equals a when b has zero precision and zero precision-mean; operands
\* whose dims differ are rejected.
C14_GaussianProduct ==
  (outcome.op = "__mul__" /\ outcome.args[1].kind = "Gaussian")
    => IF outcome.args[1].dim = outcome.args[2].dim
       THEN /\ outcome.exc = "none"
            /\ outcome.val.dim = outcome.args[1].dim
            /\ outcome.val.W.shape = outcome.args[1].W.shape
            /\ \A ix \in Idx(outcome.val.W.shape) :
                 outcome.val.W.pmf[ix]
                   = outcome.args[1].W.pmf[ix] + outcome.args[2].W.pmf[ix]
            /\ outcome.val.Wm.shape = outcome.args[1].Wm.shape
            /\ \A ix \in Idx(outcome.val.Wm.shape) :
                 outcome.val.Wm.pmf[ix]
                   = outcome.args[1].Wm.pmf[ix] + outcome.args[2].Wm.pmf[ix]
            /\ GaussianEq(outcome.val,
                          Times(outcome.args[2], outcome.args[1]).val) = Ok(TRUE)
            /\ (IsZero(outcome.args[2].W) /\ IsZero(outcome.args[2].Wm))
                 => GaussianEq(outcome.val, outcome.args[1]) = Ok(TRUE)
       ELSE outcome.exc # "none"

\* the dims of a that are not in dims, in a's order
Remaining(a, dims) == SelectSeq(a.dim, LAMBDA d : d \notin dims)

\* the multi-indices of a that agree with the assignment ix of the dims rest
CellOf(a, rest, ix) ==
  {jx \in Idx(a.shape) :
     \A k \in DOMAIN rest :
       jx[CHOOSE i \in DOMAIN a.dim : a.dim[i] = rest[k]] = ix[k]}

\* the call was a.marginalize / a.maximize (op) of some of a's own dims,
\* with normalize=False
DropsOwnDims(op) ==
  /\ outcome.op = op
  /\ Len(outcome.args[1].shape) = Len(outcome.args[1].dim)
  /\ outcome.params[1] \subseteq Range(outcome.args[1].dim)
  /\ outcome.params[2] = FALSE

\* the result is over the remaining dims of a, and a is as it was
DroppedDims ==
  /\ outcome.exc = "none"
  /\ outcome.val.dim = Remaining(outcome.args[1], outcome.params[1])
  /\ outcome.val.shape = ShapeOf(outcome.val.dim)
  /\ outcome.val.den = outcome.args[1].den
  /\ \E i \in 1..2 : outcome.operands[i] = outcome.args[1]

\* C15: for dims v1..vk of a, a.marginalize(v1..vk, normalize=False) is over
\* a.dim without those dims, in a's order, each entry the sum of a's entries
\* over the removed axes; a.maximize is the same with max; a is unchanged.
C15_DropAxes ==
  /\ (DropsOwnDims("marginalize") /\ WellFormed(outcome.args[1]))
       => /\ DroppedDims
          /\ \A ix \in Idx(outcome.val.shape) :
               outcome.val.pmf[ix]
                 = SetSum(CellOf(outcome.args[1], outcome.val.dim, ix),
                          outcome.args[1].pmf)
  /\ (DropsOwnDims("maximize") /\ WellFormed(outcome.args[1]))
       => /\ DroppedDims
          /\ \A ix \in Idx(outcome.val.shape) :
               /\ \A jx \in CellOf(outcome.args[1], outcome.val.dim, ix) :
                    outcome.args[1].pmf[jx] <= outcome.val.pmf[ix]
               /\ \E jx \in CellOf(outcome.args[1], outcome.val.dim, ix) :
                    outcome.args[1].pmf[jx] = outcome.val.pmf[ix]

C15_Witness ==
  /\ DropsOwnDims("marginalize")
  /\ Len(outcome.args[1].dim) = MaxRank
  /\ Cardinality(outcome.params[1]) = 1
  /\ outcome.exc = "none"
  /\ Len(outcome.val.dim) = MaxRank - 1
  /\ \E ix \in Idx(outcome.val.shape) : outcome.val.pmf[ix] > 4

\* C16: a.marginalize(...) and a.maximize(...) with a dim that is not one of
\* a.dim fail with an error and return no value.
C16_UnknownDimRejected ==
  (/\ outcome.op \in {"marginalize", "maximize"}
   /\ ~(outcome.params[1] \subseteq Range(outcome.args[1].dim)))
    => outcome.exc # "none"

\* the marginal of a over its dim v at state j: every other dim summed out
MarginalAt(a, v, j) == SetSum(CellOf(a, <<v>>, <<j>>), a.pmf)

\* C17: for a dim v of a, a.argmax(v) is a state index of v at which the
\* marginal of a over v is maximal; a.argmax() is the multi-index, in dim
\* order, of a maximal entry of the pmf.
C17_ArgmaxOfMarginal ==
  (outcome.op = "argmax" /\ WellFormed(outcome.args[1]))
    => /\ (outcome.params # <<>> /\ Contains(outcome.args[1].dim, outcome.params[1]))
            => /\ outcome.exc = "none"
               /\ outcome.val \in 0..(NumStates(outcome.params[1]) - 1)
               /\ \A j \in 0..(NumStates(outcome.params[1]) - 1) :
                    MarginalAt(outcome.args[1], outcome.params[1], j)
                      <= MarginalAt(outcome.args[1], outcome.params[1], outcome.val)
       /\ outcome.params = <<>>
            => /\ outcome.exc = "none"
               /\ outcome.val \in Idx(outcome.args[1].shape)
               /\ \A jx \in Idx(outcome.args[1].shape) :
                    outcome.args[1].pmf[jx] <= outcome.args[1].pmf[outcome.val]

\* C25: for rank-1 Discrete a and b over the same variable x, the results of
\* a + b, a - b, a += b and a -= b are over (x,) again.
C25_SumKeepsDim ==
  (/\ outcome.op \in {"__add__", "__sub__", "__iadd__", "__isub__"}
   /\ Len(outcome.args[1].dim) = 1
   /\ outcome.args[1].dim = outcome.args[2].dim)
    => /\ outcome.exc = "none"
       /\ outcome.val.dim = outcome.args[1].dim

\* C28: a * b (and a *= b, which returns a.__mul__(b)) leaves pmf, shape and
\* dim of both Discrete operand objects as they were, whatever their ranks.
C28_ProductLeavesOperands ==
  (outcome.op = "__mul__" /\ outcome.args[1].kind = "Discrete")
    => \A i \in 1..2 : \E k \in 1..2 :
         /\ outcome.operands[i].obj = outcome.args[k].obj
         /\ outcome.operands[i] = outcome.args[k]

====
